---- MODULE Spec2Model ----
(***************************************************************************)
(* SPL_Meter: the per-buffer pipeline that turns a buffer of raw ADC       *)
(* samples into a smoothed A-weighted sound pressure level.                *)
(*                                                                         *)
(* Number representations.                                                 *)
(*  - uint32_t values are kept at their width: the accumulator is a pair   *)
(*    of 16-bit halves and wraps modulo 2^32.                              *)
(*  - The floats of the sample preparation (steps 1 and 2) are IEEE        *)
(*    binary32 values, rounded to 24 significant bits, ties to even.  All  *)
(*    of them are whole multiples of 1/256; such a value is the record     *)
(*    [neg, hi, lo] standing for (+/-)(hi * 2^20 + lo) / 256.              *)
(*  - The lookup tables are the decimal literals of the source: the window *)
(*    in units of 1e-5, the two weighting tables in units of 1e-4.         *)
(*  - Energies are exact, in units of 1e-8, as base-2^15 limbs.            *)
(*  - Levels are decibels in fixed point, LevelUnitsPerDb units per dB;    *)
(*    the logarithm is computed in binary fixed point to 0.01 dB.  The     *)
(*    smoothing filter is then exact: binary32 rounding of the levels is   *)
(*    not modelled.                                                        *)
(***************************************************************************)
EXTENDS Integers, Sequences, FiniteSets

\* ------------------------------------------------------------------------
\* Configuration constants (SPL_Meter.h)
\* ------------------------------------------------------------------------
NUM_SAMPLES == 256

ADC_RESOLUTION == 4096

\* ADC_REF_VOLTAGE = 3.3f, in tenths of a volt.
ADC_REF_VOLTAGE_X10 == 33

\* SMOOTHING_FACTOR = 0.1f, as its reciprocal: alpha = 1 / SMOOTHING_FACTOR_INV.
SMOOTHING_FACTOR_INV == 10

CALIBRATION_OFFSET_DB == -30

\* The microphone sensitivity of powf(10.0f, -38.0f / 20.0f), in dBV/Pa.
MIC_SENSITIVITY_DB == -38

\* ------------------------------------------------------------------------
\* Bounds of the model
\* ------------------------------------------------------------------------
\* process() is called at most MaxCalls times in a behaviour.
MaxCalls == 3

\* ------------------------------------------------------------------------
\* Lookup tables
\* ------------------------------------------------------------------------
\* The initialisers of HANN_WINDOW_LUT[256], in units of 1e-5.
HANN_WINDOW_INITIALISERS ==
    <<0, 15, 61, 137, 244, 381, 548, 745, 972, 1228,
      1513, 1827, 2169, 2539, 2937, 3362, 3813, 4290, 4793, 5320,
      5872, 6448, 7048, 7671, 8317, 8986, 9677, 10390, 11124, 11879,
      12655, 13451, 14266, 15099, 15951, 16821, 17709, 18613, 19534, 20471,
      21423, 22390, 23371, 24366, 25374, 26395, 27428, 28472, 29528, 30594,
      31670, 32756, 33850, 34954, 36066, 37186, 38313, 39447, 40588, 41734,
      42886, 44042, 45203, 46368, 47536, 48708, 49882, 51058, 52236, 53415,
      54595, 55775, 56956, 58136, 59315, 60493, 61670, 62844, 64017, 65187,
      66355, 67520, 68681, 69838, 70991, 72139, 73281, 74418, 75548, 76672,
      77789, 78898, 80000, 81093, 82177, 83251, 84315, 85368, 86410, 87440,
      88458, 89464, 90457, 91436, 92402, 93354, 94291, 95212, 96116, 97004,
      97874, 98726, 99560, 100000, 99560, 98726, 97874, 97004, 96116, 95212,
      94291, 93354, 92402, 91436, 90457, 89464, 88458, 87440, 86410, 85368,
      84315, 83251, 82177, 81093, 80000, 78898, 77789, 76672, 75548, 74418,
      73281, 72139, 70991, 69838, 68681, 67520, 66355, 65187, 64017, 62844,
      61670, 60493, 59315, 58136, 56956, 55775, 54595, 53415, 52236, 51058,
      49882, 48708, 47536, 46368, 45203, 44042, 42886, 41734, 40588, 39447,
      38313, 37186, 36066, 34954, 33850, 32756, 31670, 30594, 29528, 28472,
      27428, 26395, 25374, 24366, 23371, 22390, 21423, 20471, 19534, 18613,
      17709, 16821, 15951, 15099, 14266, 13451, 12655, 11879, 11124, 10390,
      9677, 8986, 8317, 7671, 7048, 6448, 5872, 5320, 4793, 4290,
      3813, 3362, 2937, 2539, 2169, 1827, 1513, 1228, 972, 745,
      548, 381, 244, 137, 61, 15>>

\* The initialisers of A_WEIGHTING_LUT_SQUARED[128], in units of 1e-4.
A_WEIGHTING_INITIALISERS ==
    <<1287, 2120, 3162, 4365, 5623, 6813, 7852, 8692, 9333, 9772,
      10000, 10000, 9853, 9661, 9333, 8913, 8414, 7852, 7244, 6607,
      5957, 5309, 4677, 4074, 3548, 3020, 2512, 2000, 1585, 1259,
      1000, 794, 631, 501, 400, 316, 251, 200, 158, 126,
      100, 79, 63, 50, 40, 32, 25, 20, 16, 13,
      10, 8, 6, 5, 4, 3, 3, 2, 2, 1,
      1, 1, 1, 1, 0, 0, 0, 0, 0, 0,
      0, 0, 0, 0, 0, 0, 0, 0, 0, 0,
      0, 0, 0, 0, 0, 0, 0, 0, 0, 0,
      0, 0, 0, 0, 0, 0, 0, 0, 0, 0,
      0, 0, 0, 0, 0, 0, 0, 0, 0, 0,
      0, 0, 0, 0, 0, 0, 0, 0>>

\* The initialisers of MIC_CORRECTION_LUT_SQUARED[128], in units of 1e-4.
MIC_CORRECTION_INITIALISERS ==
    <<11834, 11220, 10965, 10715, 10471, 10233, 10000, 9886, 9772, 9772,
      9772, 9886, 9886, 9886, 10000, 10000, 10000, 10000, 9886, 9886,
      9886, 9772, 9772, 9772, 9661, 9661, 9550, 9550, 9441, 9441,
      9333, 9333, 9226, 9226, 9120, 9120, 9016, 9016, 8913, 8913,
      8810, 8810, 8710, 8710, 8610, 8610, 8511, 8511, 8414, 8414,
      8318, 8318, 8222, 8222, 8128, 8128, 8035, 8035, 7943, 7943,
      7852, 7852, 7762, 7762, 7674, 7674, 7586, 7586, 7499, 7499,
      7413, 7413, 7328, 7328, 7244, 7244, 7161, 7161, 7079, 7079,
      6998, 6998, 6918, 6918, 6839, 6839, 6761, 6761, 6683, 6683,
      6607, 6607, 6531, 6531, 6457, 6457, 6383, 6383, 6310, 6310,
      6237, 6237, 6166, 6166, 6095, 6095, 6026, 6026, 5957, 5957,
      5888, 5888, 5821, 5821, 5754, 5754, 5688, 5688, 5623, 5623,
      5559, 5559, 5495, 5495, 5433, 5433, 5370, 5370>>

\* An array element: its initialiser, or zero where the initialiser list is
\* shorter than the declared array (C++ aggregate initialisation).
ArrayElem(inits, i) == IF i < Len(inits) THEN inits[i + 1] ELSE 0

HANN_WINDOW_LUT(i) == ArrayElem(HANN_WINDOW_INITIALISERS, i)

A_WEIGHTING_LUT_SQUARED(i) == ArrayElem(A_WEIGHTING_INITIALISERS, i)

MIC_CORRECTION_LUT_SQUARED(i) == ArrayElem(MIC_CORRECTION_INITIALISERS, i)

\* ------------------------------------------------------------------------
\* uint32_t arithmetic
\* ------------------------------------------------------------------------
\* A uint32_t as its two 16-bit halves.
U32(v) == [hi16 |-> (v \div 65536) % 65536, lo16 |-> v % 65536]

\* sum += v on uint32_t: the addition wraps modulo 2^32.
U32Add(u, v) ==
    LET lo == u.lo16 + (v % 65536)
        hi == u.hi16 + (v \div 65536) + (lo \div 65536)
    IN  [hi16 |-> hi % 65536, lo16 |-> lo % 65536]

\* ------------------------------------------------------------------------
\* binary32 arithmetic on multiples of 1/256
\* ------------------------------------------------------------------------
RECURSIVE BitLen(_)
BitLen(n) == IF n = 0 THEN 0 ELSE 1 + BitLen(n \div 2)

F32Zero == [neg |-> FALSE, hi |-> 0, lo |-> 0]

\* The real number v (a whole number below 2^31), unrounded.
ExactOfInt(v) == [neg |-> FALSE, hi |-> v \div 4096, lo |-> (v % 4096) * 256]

\* Rounding of the magnitude hi * 2^20 + lo to 24 significant bits, ties to
\* even, as every binary32 operation rounds its exact result.
RoundMag(hi, lo) ==
    LET bits == IF hi > 0 THEN 20 + BitLen(hi) ELSE BitLen(lo)
        s    == bits - 24
    IN  IF s <= 0
        THEN [hi |-> hi, lo |-> lo]
        ELSE LET q    == hi * 2^(20 - s) + (lo \div 2^s)
                 r    == lo % 2^s
                 half == 2^(s - 1)
                 up   == r > half \/ (r = half /\ q % 2 = 1)
                 q2   == IF up THEN q + 1 ELSE q
             IN  [hi |-> q2 \div 2^(20 - s), lo |-> (q2 % 2^(20 - s)) * 2^s]

F32Make(neg, mag) ==
    IF mag.hi = 0 /\ mag.lo = 0 THEN F32Zero
    ELSE [neg |-> neg, hi |-> mag.hi, lo |-> mag.lo]

\* (float)v of an unsigned integer v below 2^31.
F32OfInt(v) == F32Make(FALSE, RoundMag(v \div 4096, (v % 4096) * 256))

\* (float)u of a uint32_t.
F32OfU32(u) ==
    F32Make(FALSE, RoundMag(u.hi16 * 16 + (u.lo16 \div 4096), (u.lo16 % 4096) * 256))

\* f / NUM_SAMPLES: a division by a power of two, exact in binary32.
F32DivNumSamples(f) ==
    [neg |-> f.neg,
     hi  |-> f.hi \div NUM_SAMPLES,
     lo  |-> (f.hi % NUM_SAMPLES) * (2^20 \div NUM_SAMPLES) + (f.lo \div NUM_SAMPLES)]

MagLess(a, b) == a.hi < b.hi \/ (a.hi = b.hi /\ a.lo < b.lo)

\* a - b of two magnitudes with a >= b, exact.
MagSub(a, b) ==
    IF a.lo >= b.lo
    THEN [hi |-> a.hi - b.hi, lo |-> a.lo - b.lo]
    ELSE [hi |-> a.hi - b.hi - 1, lo |-> a.lo + 2^20 - b.lo]

\* a - b of two non-negative binary32 values: the exact difference, rounded.
F32Sub(a, b) ==
    IF MagLess(a, b)
    THEN LET d == MagSub(b, a) IN F32Make(TRUE, RoundMag(d.hi, d.lo))
    ELSE LET d == MagSub(a, b) IN F32Make(FALSE, RoundMag(d.hi, d.lo))

\* sample * HANN_WINDOW_LUT[i]: the product, kept as its two factors; it is
\* zero exactly when a factor is zero.
WindowMul(sample, w) ==
    IF sample = F32Zero \/ w = 0 THEN [v |-> F32Zero, w |-> 0]
    ELSE [v |-> sample, w |-> w]

WindowedZero == [v |-> F32Zero, w |-> 0]

\* ------------------------------------------------------------------------
\* process(), steps 1 and 2: DC offset, centring and windowing
\* ------------------------------------------------------------------------
\* for (i = from; i < to; i++) sum += raw_buffer[i];  The samples are added
\* one at a time, in index order.  The loop is evaluated in blocks of
\* LoopBlock iterations, the accumulator being evaluated at the end of each
\* block, which only keeps the evaluation shallow.
LoopBlock == 16

RECURSIVE SumLoop(_, _, _, _)
SumLoop(raw, sum, from, to) ==
    IF from >= to THEN sum
    ELSE IF to - from > LoopBlock
    THEN CHOOSE r \in {SumLoop(raw, s, from + LoopBlock, to) :
                         s \in {SumLoop(raw, sum, from, from + LoopBlock)}} : TRUE
    ELSE SumLoop(raw, U32Add(sum, raw[from]), from + 1, to)

\* uint32_t sum = 0; for (int i = 0; i < NUM_SAMPLES; i++) sum += raw_buffer[i];
SumSamples(raw) == SumLoop(raw, U32(0), 0, NUM_SAMPLES)

\* A fixed mid-scale offset in place of the measured mean.
FixedDcOffset(raw) == ExactOfInt(ADC_RESOLUTION \div 2)

\* float dynamic_dc_offset = (float)sum / NUM_SAMPLES;
DynamicDcOffset(raw) ==
    F32DivNumSamples(F32OfU32(SumSamples(raw)))

\* The sample as read, the dc offset left in.
UncentredSample(raw, dc, i) == F32OfInt(raw[i])

\* float32_t sample = (float32_t)raw_buffer[i] - dynamic_dc_offset;
CentredSample(raw, dc, i) == F32Sub(F32OfInt(raw[i]), dc)

\* An array written out element by element (the same function as f).
Array(f) == CHOOSE g \in {f} : g = f

\* m_fft_input_buffer[i] = sample * HANN_WINDOW_LUT[i], for every i.
WindowLoop(raw, dc) ==
    Array([i \in 0..(NUM_SAMPLES - 1) |->
        WindowMul(CentredSample(raw, dc, i), HANN_WINDOW_LUT(i))])

\* Steps 1 and 2 together: the contents of m_fft_input_buffer.
WindowedInput(raw) ==
    CHOOSE input \in {WindowLoop(raw, dc) : dc \in {DynamicDcOffset(raw)}} :
        TRUE

\* ------------------------------------------------------------------------
\* process(), steps 4 to 6: weighted energy of the spectrum
\* ------------------------------------------------------------------------
\* The energy loop starts at bin FIRST_BIN and ends before bin NUM_SAMPLES / 2.
FIRST_BIN == 1

\* An exact non-negative number as base-2^15 limbs <<top, mid, low>>, standing
\* for top * 2^30 + mid * 2^15 + low; mid and low stay below 2^15.
LimbZero == <<0, 0, 0>>

LimbNorm(p2, p1, p0) ==
    LET t1 == p1 + (p0 \div 32768)
    IN  <<p2 + (t1 \div 32768), t1 % 32768, p0 % 32768>>

\* x * y, exact, for 0 <= x, y < 2^30.
LimbMul(x, y) ==
    LET x1 == x \div 32768  x0 == x % 32768
        y1 == y \div 32768  y0 == y % 32768
    IN  LimbNorm(x1 * y1, x1 * y0 + x0 * y1, x0 * y0)

LimbAdd(a, b) == LimbNorm(a[1] + b[1], a[2] + b[2], a[3] + b[3])

\* real * real + imag * imag of bin i of a packed spectrum.
MagSq(out, i) == out[2 * i] * out[2 * i] + out[2 * i + 1] * out[2 * i + 1]

\* mag_sq * A_WEIGHTING_LUT_SQUARED[i] * MIC_CORRECTION_LUT_SQUARED[i], in
\* units of 1e-8.
WeightedMagSq(out, i) ==
    LimbMul(MagSq(out, i), A_WEIGHTING_LUT_SQUARED(i) * MIC_CORRECTION_LUT_SQUARED(i))

\* for (i = from; i < to; i++) total_energy += weighted_mag_sq;
RECURSIVE EnergyLoop(_, _, _, _)
EnergyLoop(out, total, from, to) ==
    IF from >= to THEN total
    ELSE IF to - from > LoopBlock
    THEN CHOOSE r \in {EnergyLoop(out, t, from + LoopBlock, to) :
                         t \in {EnergyLoop(out, total, from, from + LoopBlock)}} : TRUE
    ELSE EnergyLoop(out, LimbAdd(total, WeightedMagSq(out, from)), from + 1, to)

\* The accumulation started at bin 0, that is at slots 0 and 1.
TotalEnergyFromBinZero(out) == EnergyLoop(out, LimbZero, 0, NUM_SAMPLES \div 2)

\* float32_t total_energy = 0.0f; for (i = 1; i < NUM_SAMPLES / 2; i++) ...
TotalEnergy(out) == EnergyLoop(out, LimbZero, FIRST_BIN, NUM_SAMPLES \div 2)

\* ------------------------------------------------------------------------
\* process(), step 7: energy to dBA SPL
\* ------------------------------------------------------------------------
\* log2 of a whole number m >= 1, in units of 1/1024: the characteristic is
\* the bit length, the mantissa is squared ten times for the fraction bits.
RECURSIVE Log2Frac(_, _, _)
Log2Frac(x, acc, n) ==
    IF n = 0 THEN acc
    ELSE LET sq == (x * x) \div 16384
         IN  IF sq >= 32768
             THEN Log2Frac(sq \div 2, 2 * acc + 1, n - 1)
             ELSE Log2Frac(sq, 2 * acc, n - 1)

Log2Q10(m) ==
    LET ex == BitLen(m) - 1
        x  == IF ex >= 14 THEN m \div 2^(ex - 14) ELSE m * 2^(14 - ex)
    IN  ex * 1024 + Log2Frac(x, 0, 10)

\* 10 * log10 of a quantity whose log2 is q / 1024, in hundredths of a dB
\* (log10(2) = 0.30103).
CentiDbOfLog2(q) == (q * 30103) \div 102400

\* 10 * log10(m) of a whole number m >= 1, in hundredths of a dB.
Db10(m) == CentiDbOfLog2(Log2Q10(m))

\* log2 of a positive limb number, in units of 1/1024.
LimbLog2Q10(e) ==
    IF e[1] = 0
    THEN Log2Q10(e[2] * 32768 + e[3])
    ELSE IF e[1] < 32768
    THEN 15 * 1024 + Log2Q10(e[1] * 32768 + e[2])
    ELSE 30 * 1024 + Log2Q10(e[1])

\* 10 * log10(total_energy) in hundredths of a dB; the limbs count 1e-8.
EnergyDb(e) == CentiDbOfLog2(LimbLog2Q10(e)) - 8000

\* The else branch of step 7, quantity by quantity, each as 10 * log10 of
\* its square (that is 20 * log10 of an amplitude) in hundredths of a dB.
MeanSqAdcDb(e) == EnergyDb(e) + Db10(2) - Db10(NUM_SAMPLES * NUM_SAMPLES)

RmsAdcDb(e) == MeanSqAdcDb(e)

RmsVoltageDb(e) ==
    RmsAdcDb(e) - 2 * Db10(ADC_RESOLUTION) + 2 * (Db10(ADC_REF_VOLTAGE_X10) - Db10(10))

SensitivityDb == 100 * MIC_SENSITIVITY_DB

PressureDb(e) == RmsVoltageDb(e) - SensitivityDb

\* spl = 20.0f * log10f(pressure_Pa / 20e-6f)
SplDb(e) == PressureDb(e) - 2 * (Db10(20) - Db10(1000000))

\* The conversion without its degenerate branch at 0: the offset alone.
LatestCentiDbOffsetOnly(e) ==
    IF e = LimbZero THEN 100 * CALIBRATION_OFFSET_DB
    ELSE SplDb(e) + 100 * CALIBRATION_OFFSET_DB

\* The value stored in m_latest_dba_spl, in hundredths of a dB.
LatestCentiDb(e) ==
    IF e = LimbZero THEN 0
    ELSE SplDb(e) + 100 * CALIBRATION_OFFSET_DB

\* ------------------------------------------------------------------------
\* process(), step 8: exponential moving average
\* ------------------------------------------------------------------------
\* Levels are whole numbers of 1 / LevelUnitsPerDb dB.  An instantaneous
\* level is a whole number of hundredths of a dB, and every process() call
\* divides the smoothed level by SMOOTHING_FACTOR_INV once, so MaxCalls
\* further decimal digits keep the filter exact over a whole behaviour.
LevelUnitsPerDb == 100 * SMOOTHING_FACTOR_INV^MaxCalls

LevelOfCentiDb(c) == c * SMOOTHING_FACTOR_INV^MaxCalls

\* SMOOTHING_FACTOR * x
TimesAlpha(x) == x \div SMOOTHING_FACTOR_INV

\* The old smoothed level kept whole.
TimesOne(x) == x

\* (1.0f - SMOOTHING_FACTOR) * x
TimesOneMinusAlpha(x) == (SMOOTHING_FACTOR_INV - 1) * (x \div SMOOTHING_FACTOR_INV)

\* No smoothing: the smoothed level follows the latest level.
EmaLatestOnly(latest, smoothed) == latest

\* (SMOOTHING_FACTOR * m_latest_dba_spl) + ((1.0f - SMOOTHING_FACTOR) * m_smoothed_dba_spl)
Ema(latest, smoothed) == TimesAlpha(latest) + TimesOneMinusAlpha(smoothed)

\* The level process() stores in m_latest_dba_spl for a total energy e.
LatestLevel(e) == LevelOfCentiDb(LatestCentiDb(e))

\* ------------------------------------------------------------------------
\* Inputs: sample buffers
\* ------------------------------------------------------------------------
SampleIndex == 0..(NUM_SAMPLES - 1)

\* Every sample equal to c.
ConstantBuffer(c) == [i \in SampleIndex |-> c]

\* Every sample equal to base, but sample j, which is base + d.
ImpulseBuffer(base, j, d) == [i \in SampleIndex |-> IF i = j THEN base + d ELSE base]

\* The constants of the pure-DC buffers: the largest ADC code, and sample
\* values around 2^24, where 256 equal samples no longer fit the 32-bit sum.
DcLevels == {4095, 16777215, 16777216}

Buffers ==
    {ConstantBuffer(c) : c \in DcLevels}
    \cup {ImpulseBuffer(base, 40, 1) : base \in {0, 2048}}

\* ------------------------------------------------------------------------
\* The transform primitive arm_rfft_fast_f32 (CMSIS-DSP, outside this code)
\* ------------------------------------------------------------------------
\* A packed spectrum: slot 0 holds the real zero-frequency component, slot 1
\* the real Nyquist component, slots 2k and 2k+1 the real and imaginary part
\* of bin k.  Slot values are whole numbers.
Packed(dc, nyquist, k, re, im) ==
    [s \in SampleIndex |->
        IF s = 0 THEN dc
        ELSE IF s = 1 THEN nyquist
        ELSE IF s = 2 * k THEN re
        ELSE IF s = 2 * k + 1 THEN im
        ELSE 0]

ZeroSpectrum == [s \in SampleIndex |-> 0]

\* The outputs the model lets the transform produce for a non-zero input:
\* content in the zero-frequency slot only; one faint bin; one loud bin.
SpectrumMenu ==
    { Packed(500, 0, 1, 0, 0),
      Packed(7, 0, 3, 1, 0),
      Packed(-20, 0, 10, 1806, 0) }

AllZero(input) == \A i \in SampleIndex : input[i] = WindowedZero

\* ------------------------------------------------------------------------
\* State
\* ------------------------------------------------------------------------
VARIABLES
    m_latest_dba_spl,     \* the instantaneous level of the last buffer
    m_smoothed_dba_spl,   \* the smoothed level
    m_fft_instance,       \* "indeterminate" until begin(), then "initialised"
    m_fft_input_buffer,   \* the windowed samples handed to the transform
    m_fft_output_buffer,  \* the packed spectrum the transform wrote
    rfft_results,         \* the transform is a function: its output per input so far
    raw_buffer,           \* the argument of the last process() call
    previous_raw_buffer,  \* the argument of the process() call before it
    dynamic_dc_offset,    \* the local dynamic_dc_offset of the last process() call
    total_energy,         \* the local total_energy of the last process() call
    returned,             \* what the last getSmoothedDbaSpl() call returned
    last_op,              \* the member function called last
    calls,                \* the number of process() calls so far
    faulted               \* the transform ran on an indeterminate instance and trapped

vars == <<m_latest_dba_spl, m_smoothed_dba_spl, m_fft_instance, m_fft_input_buffer,
          m_fft_output_buffer, rfft_results, raw_buffer, previous_raw_buffer,
          dynamic_dc_offset, total_energy, returned, last_op, calls, faulted>>

\* The members process() reads or writes: what the spec calls pipeline state.
pipeline == <<m_latest_dba_spl, m_smoothed_dba_spl, m_fft_instance,
              m_fft_input_buffer, m_fft_output_buffer>>

\* What never-written storage may hold: all zero bits, or left-over values.
IndeterminateBuffers ==
    { [input |-> [i \in SampleIndex |-> WindowedZero], output |-> ZeroSpectrum],
      [input |-> [i \in SampleIndex |-> WindowMul(ExactOfInt(1), 1)],
       output |-> Packed(1, 1, 2, 1, 1)] }

\* SPL_Meter::SPL_Meter(): the two levels start at 0.0f; the transform
\* instance and the working buffers are not initialised.
Init ==
    /\ m_latest_dba_spl = 0
    /\ m_smoothed_dba_spl = 0
    /\ m_fft_instance = "indeterminate"
    /\ \E mem \in IndeterminateBuffers :
          /\ m_fft_input_buffer = mem.input
          /\ m_fft_output_buffer = mem.output
    /\ rfft_results = <<>>
    /\ raw_buffer = ConstantBuffer(0)
    /\ previous_raw_buffer = ConstantBuffer(0)
    /\ dynamic_dc_offset = F32Zero
    /\ total_energy = LimbZero
    /\ returned = 0
    /\ last_op = "none"
    /\ calls = 0
    /\ faulted = FALSE

\* SPL_Meter::begin(): arm_rfft_fast_init_f32 prepares the instance.
begin ==
    /\ ~faulted
    /\ m_fft_instance' = "initialised"
    /\ last_op' = "begin"
    /\ UNCHANGED <<m_latest_dba_spl, m_smoothed_dba_spl, m_fft_input_buffer,
                   m_fft_output_buffer, rfft_results, raw_buffer, previous_raw_buffer,
                   dynamic_dc_offset, total_energy, returned, calls, faulted>>

\* The accessor reading the other level member.
GetLatestResult == m_latest_dba_spl

\* SPL_Meter::getSmoothedDbaSpl(): return m_smoothed_dba_spl;
GetSmoothedResult == m_smoothed_dba_spl

getSmoothedDbaSpl ==
    /\ ~faulted
    /\ returned' = GetSmoothedResult
    /\ last_op' = "get"
    /\ UNCHANGED <<m_latest_dba_spl, m_smoothed_dba_spl, m_fft_instance,
                   m_fft_input_buffer, m_fft_output_buffer, rfft_results, raw_buffer,
                   previous_raw_buffer, dynamic_dc_offset, total_energy, calls, faulted>>

\* A transform that is not linear: any output for any input.
RfftAnyOutcome(input) == SpectrumMenu \cup {ZeroSpectrum}

\* The spectra arm_rfft_fast_f32 may write for an input.  On an initialised
\* instance it is a function of the input, and linear: a zero input gives a
\* zero spectrum.  On an indeterminate instance (no begin() yet) its
\* behaviour is undefined: any output at all, or a trap (processFault).
RfftOutcomes(input) ==
    IF m_fft_instance # "initialised" THEN SpectrumMenu \cup {ZeroSpectrum}
    ELSE IF AllZero(input) THEN {ZeroSpectrum}
    ELSE IF \E n \in DOMAIN rfft_results : rfft_results[n].input = input
    THEN {rfft_results[n].output : n \in {n \in DOMAIN rfft_results : rfft_results[n].input = input}}
    ELSE SpectrumMenu

RfftRemember(input, out) ==
    IF m_fft_instance # "initialised" \/ AllZero(input)
       \/ \E n \in DOMAIN rfft_results : rfft_results[n].input = input
    THEN rfft_results
    ELSE Append(rfft_results, [input |-> input, output |-> out])

\* Steps 1 and 2 of process() on each buffer of the model, and steps 4 to 7
\* on each spectrum of the model: the operators above, applied once per
\* input and tabulated.
Prepared ==
    Array([raw \in Buffers |->
        [dc |-> DynamicDcOffset(raw), input |-> WindowedInput(raw)]])

Reading ==
    Array([out \in SpectrumMenu \cup {ZeroSpectrum} |->
        [energy |-> TotalEnergy(out), latest |-> LatestLevel(TotalEnergy(out))]])

\* SPL_Meter::process(raw): the whole pipeline on one buffer.
process(raw) ==
    /\ ~faulted
    /\ calls < MaxCalls
    /\ \E out \in RfftOutcomes(Prepared[raw].input) :
          /\ dynamic_dc_offset' = Prepared[raw].dc
          /\ m_fft_input_buffer' = Prepared[raw].input
          /\ m_fft_output_buffer' = out
          /\ rfft_results' = RfftRemember(Prepared[raw].input, out)
          /\ total_energy' = Reading[out].energy
          /\ m_latest_dba_spl' = Reading[out].latest
          /\ m_smoothed_dba_spl' = Ema(Reading[out].latest, m_smoothed_dba_spl)
    /\ raw_buffer' = raw
    /\ previous_raw_buffer' = raw_buffer
    /\ last_op' = "process"
    /\ calls' = calls + 1
    /\ UNCHANGED <<m_fft_instance, returned, faulted>>

\* process(raw) before begin(), where the transform traps on its
\* indeterminate instance: steps 1 and 2 have run, nothing after them does.
processFault(raw) ==
    /\ ~faulted
    /\ calls < MaxCalls
    /\ m_fft_instance # "initialised"
    /\ dynamic_dc_offset' = Prepared[raw].dc
    /\ m_fft_input_buffer' = Prepared[raw].input
    /\ raw_buffer' = raw
    /\ previous_raw_buffer' = raw_buffer
    /\ last_op' = "process"
    /\ calls' = calls + 1
    /\ faulted' = TRUE
    /\ UNCHANGED <<m_latest_dba_spl, m_smoothed_dba_spl, m_fft_instance,
                   m_fft_output_buffer, rfft_results, total_energy, returned>>

Next ==
    \/ begin
    \/ getSmoothedDbaSpl
    \/ \E raw \in Buffers : process(raw)
    \/ \E raw \in Buffers : processFault(raw)

Spec == Init /\ [][Next]_vars

\* ------------------------------------------------------------------------
\* Properties
\* ------------------------------------------------------------------------
Initialised == m_fft_instance = "initialised"

\* The step is a process() call that returned.
ProcessReturned == calls' = calls + 1 /\ ~faulted'

\* The last member function called was process(), and it returned.
AfterProcess == last_op = "process" /\ ~faulted

\* The level of a number of tenths of a dB.
LevelOfTenths(tenths) == tenths * (LevelUnitsPerDb \div 10)

\* NUM_SAMPLES samples equal to c add up to less than 2^32.
FitsSum(c) == c < (65536 \div NUM_SAMPLES) * 65536

\* C1: a process() call that returns sets the smoothed level to
\* alpha * latest + (1 - alpha) * old smoothed, alpha = 1 / SMOOTHING_FACTOR_INV,
\* latest being the level computed from that call's total energy (the
\* branch at total energy 0 included); no other step changes the smoothed level.
C1_SmoothedUpdatedOncePerProcess ==
    [][IF ProcessReturned
       THEN /\ m_latest_dba_spl' = LatestLevel(total_energy')
            /\ SMOOTHING_FACTOR_INV * m_smoothed_dba_spl' =
                   m_latest_dba_spl' + (SMOOTHING_FACTOR_INV - 1) * m_smoothed_dba_spl
       ELSE m_smoothed_dba_spl' = m_smoothed_dba_spl]_vars

\* Two calls returned, the second through the branch at total energy 0,
\* and the smoothed level moved with it.
C1_Witness ==
    /\ AfterProcess
    /\ calls = 2
    /\ total_energy = LimbZero
    /\ m_smoothed_dba_spl # 0
    /\ m_smoothed_dba_spl # m_latest_dba_spl

\* C2: getSmoothedDbaSpl() returns the smoothed level and leaves the levels,
\* the working buffers and the transform instance as they were, in every
\* state; before the first process() call it returns 0.
C2_GetIsPureRead ==
    [][last_op' = "get" =>
           /\ returned' = m_smoothed_dba_spl
           /\ UNCHANGED pipeline
           /\ (calls = 0 => returned' = 0)]_vars

\* The accessor returned a non-zero smoothed level that differs from the
\* latest level.
C2_Witness ==
    /\ last_op = "get"
    /\ calls > 0
    /\ returned # 0
    /\ returned = m_smoothed_dba_spl
    /\ returned # m_latest_dba_spl

\* C3 (as stated): after begin(), for every buffer whose samples all equal
\* one constant c, whatever 32-bit value c is, process() computes the dc
\* offset c, windowed samples that are all 0, total energy 0 and latest
\* level 0.
C3_SilenceForEveryConstant ==
    \A c \in DcLevels :
        (AfterProcess /\ Initialised /\ raw_buffer = ConstantBuffer(c)) =>
            /\ dynamic_dc_offset = ExactOfInt(c)
            /\ AllZero(m_fft_input_buffer)
            /\ total_energy = LimbZero
            /\ m_latest_dba_spl = 0

\* C3 (amended): for every buffer whose samples all equal one constant c
\* with NUM_SAMPLES * c below 2^32, process() computes the dc offset c and
\* windowed samples that are all 0; when begin() was called before, the
\* total energy is 0 and the latest level is 0.
C3_SilenceWhenSumFits ==
    \A c \in DcLevels :
        (last_op = "process" /\ raw_buffer = ConstantBuffer(c) /\ FitsSum(c)) =>
            /\ dynamic_dc_offset = ExactOfInt(c)
            /\ AllZero(m_fft_input_buffer)
            /\ (Initialised /\ ~faulted =>
                    total_energy = LimbZero /\ m_latest_dba_spl = 0)

\* A buffer of the largest constant whose sum fits was processed after
\* begin(), following a call that had left a non-zero smoothed level.
C3_Witness ==
    /\ AfterProcess
    /\ Initialised
    /\ raw_buffer = ConstantBuffer(16777215)
    /\ dynamic_dc_offset = ExactOfInt(16777215)
    /\ m_latest_dba_spl = 0
    /\ m_smoothed_dba_spl # 0

\* b + k, sample by sample.
Shifted(raw, k) == [i \in SampleIndex |-> raw[i] + k]

\* Every sample is an ADC code.
ValidSamples(raw) == \A i \in SampleIndex : raw[i] \in 0..(ADC_RESOLUTION - 1)

\* raw is b + k for a constant k, and both hold ADC codes only.
ShiftedValid(b, raw) ==
    /\ ValidSamples(b)
    /\ ValidSamples(raw)
    /\ raw = Shifted(b, raw[0] - b[0])

\* C4: when process(b) is followed by process(b + k), b and b + k holding
\* ADC codes only, both calls hand the same windowed samples to the
\* transform and, after begin(), store the same latest level.
C4_DcOffsetInvariance ==
    [][(last_op = "process" /\ calls' = calls + 1 /\ ShiftedValid(raw_buffer, raw_buffer')) =>
           /\ m_fft_input_buffer' = m_fft_input_buffer
           /\ (Initialised /\ ~faulted' => m_latest_dba_spl' = m_latest_dba_spl)]_vars

\* After begin(), a buffer with one raised sample and then the same buffer
\* 2048 higher were processed, and gave a non-zero level.
C4_Witness ==
    /\ AfterProcess
    /\ Initialised
    /\ Len(rfft_results) > 0
    /\ previous_raw_buffer = ImpulseBuffer(0, 40, 1)
    /\ raw_buffer = ImpulseBuffer(2048, 40, 1)
    /\ m_latest_dba_spl # 0

\* C5: the window table process() has used holds NUM_SAMPLES coefficients,
\* each from 0 to 1 (0 to 100000 in units of 1e-5); the coefficient at
\* index i equals the one at index NUM_SAMPLES - 1 - i; and the largest
\* coefficient, 1, is at the midpoint, index NUM_SAMPLES / 2 - 1 or
\* NUM_SAMPLES / 2.
C5_WindowTableSymmetric ==
    last_op = "process" =>
        /\ Len(HANN_WINDOW_INITIALISERS) = NUM_SAMPLES
        /\ \A i \in SampleIndex : HANN_WINDOW_LUT(i) \in 0..100000
        /\ \A i \in SampleIndex :
               HANN_WINDOW_LUT(i) = HANN_WINDOW_LUT(NUM_SAMPLES - 1 - i)
        /\ \E mid \in {NUM_SAMPLES \div 2 - 1, NUM_SAMPLES \div 2} :
               /\ HANN_WINDOW_LUT(mid) = 100000
               /\ \A i \in SampleIndex : HANN_WINDOW_LUT(i) <= HANN_WINDOW_LUT(mid)

\* C6: each process() call that returns with latest level L leaves the
\* error L - smoothed at exactly (1 - alpha) times the error before it, the
\* smoothed level moving toward L and never past it; from smoothed level 0,
\* a first call with L = 60 dB gives 6.0 dB and a second gives 11.4 dB.
C6_SmoothingConvergence ==
    [][ProcessReturned =>
          LET L == m_latest_dba_spl'
              before == m_smoothed_dba_spl
              after == m_smoothed_dba_spl'
          IN  /\ SMOOTHING_FACTOR_INV * (L - after) = (SMOOTHING_FACTOR_INV - 1) * (L - before)
              /\ (before <= L => before <= after /\ after <= L)
              /\ (before >= L => L <= after /\ after <= before)
              /\ (calls = 0 /\ L = LevelOfTenths(600) => after = LevelOfTenths(60))
              /\ (calls = 1 /\ m_latest_dba_spl = L /\ L = LevelOfTenths(600) =>
                      after = LevelOfTenths(114))]_vars

\* Two calls with a latest level of 60 dB each: the smoothed level is 11.4 dB.
C6_Witness ==
    /\ AfterProcess
    /\ calls = 2
    /\ m_latest_dba_spl = LevelOfTenths(600)
    /\ m_smoothed_dba_spl = LevelOfTenths(114)

\* The buffer is pure DC and its NUM_SAMPLES samples fit the 32-bit sum.
PureDc(raw) == \E c \in DcLevels : FitsSum(c) /\ raw = ConstantBuffer(c)

\* C7 (as stated): after process() returned for a pure-DC buffer, the
\* smoothed level is not negative, whatever state the call started from.
C7_SilenceNeverNegative ==
    (AfterProcess /\ Initialised /\ PureDc(raw_buffer)) => m_smoothed_dba_spl >= 0

\* C7 (amended): after begin(), each process() call on a pure-DC buffer
\* whose samples fit the 32-bit sum multiplies the smoothed level by
\* (1 - alpha): it moves toward 0 and keeps its sign, so it stays
\* non-negative when it was non-negative and stays negative when it was
\* negative.
C7_SilenceDecaysTowardZero ==
    [][(ProcessReturned /\ Initialised /\ PureDc(raw_buffer')) =>
           /\ SMOOTHING_FACTOR_INV * m_smoothed_dba_spl' =
                  (SMOOTHING_FACTOR_INV - 1) * m_smoothed_dba_spl
           /\ (m_smoothed_dba_spl >= 0 =>
                  m_smoothed_dba_spl' >= 0 /\ m_smoothed_dba_spl' <= m_smoothed_dba_spl)
           /\ (m_smoothed_dba_spl < 0 =>
                  m_smoothed_dba_spl' < 0 /\ m_smoothed_dba_spl' > m_smoothed_dba_spl)]_vars

\* A pure-DC buffer was processed after begin() from a negative smoothed
\* level, which it left negative.
C7_Witness ==
    /\ AfterProcess
    /\ Initialised
    /\ PureDc(raw_buffer)
    /\ m_latest_dba_spl = 0
    /\ m_smoothed_dba_spl < 0

\* C8: a process() call made before begin() updates neither the latest
\* level nor the smoothed level.
C8_NoReadingBeforeBegin ==
    [][(~Initialised /\ calls' = calls + 1) =>
           /\ m_latest_dba_spl' = m_latest_dba_spl
           /\ m_smoothed_dba_spl' = m_smoothed_dba_spl]_vars

\* The spectrum with slots 0 and 1 cleared.
WithoutDcSlots(out) == [out EXCEPT ![0] = 0, ![1] = 0]

\* Nothing but slots 0 and 1 of the spectrum is non-zero.
OnlyDcSlots(out) == \A s \in 2..(NUM_SAMPLES - 1) : out[s] = 0

\* No bin but bin k of the spectrum is non-zero.
SingleBin(out, k) ==
    \A s \in 2..(NUM_SAMPLES - 1) : s \notin {2 * k, 2 * k + 1} => out[s] = 0

\* The total energy of each spectrum of the model with slots 0 and 1 cleared.
EnergyWithoutDcSlots ==
    Array([out \in SpectrumMenu \cup {ZeroSpectrum} |-> TotalEnergy(WithoutDcSlots(out))])

\* For a spectrum of one bin k, the total energy is that bin's power times
\* the two coefficients at index k.
WeightsAtBinIndex ==
    \A out \in SpectrumMenu : \A k \in 1..(NUM_SAMPLES \div 2 - 1) :
        SingleBin(out, k) =>
            TotalEnergy(out) =
                LimbMul(out[2 * k] * out[2 * k] + out[2 * k + 1] * out[2 * k + 1],
                        A_WEIGHTING_LUT_SQUARED(k) * MIC_CORRECTION_LUT_SQUARED(k))

\* C9: the total energy process() accumulates does not depend on slots 0
\* and 1 of the transform output; a bin's power is weighted by the two
\* coefficients at that bin's index; and an output that is non-zero in
\* slots 0 and 1 only gives total energy 0.
C9_BinZeroExcluded ==
    AfterProcess =>
        /\ WeightsAtBinIndex
        /\ total_energy = EnergyWithoutDcSlots[m_fft_output_buffer]
        /\ (OnlyDcSlots(m_fft_output_buffer) => total_energy = LimbZero)

\* process() returned for a transform output that is non-zero in the
\* zero-frequency slot only.
C9_Witness ==
    /\ AfterProcess
    /\ Initialised
    /\ m_fft_output_buffer[0] # 0
    /\ OnlyDcSlots(m_fft_output_buffer)
    /\ total_energy = LimbZero

\* C10: when the total energy is 0, process() stores latest level 0 and
\* still applies the smoothing update with it; when the total energy is
\* above 0, it stores the level of the conversion chain plus the
\* calibration offset.
C10_DegenerateEnergy ==
    [][ProcessReturned =>
          IF total_energy' = LimbZero
          THEN /\ m_latest_dba_spl' = 0
               /\ SMOOTHING_FACTOR_INV * m_smoothed_dba_spl' =
                      (SMOOTHING_FACTOR_INV - 1) * m_smoothed_dba_spl
          ELSE m_latest_dba_spl' =
                   LevelOfCentiDb(SplDb(total_energy') + 100 * CALIBRATION_OFFSET_DB)]_vars

\* process() returned with total energy 0 for a non-zero transform output,
\* after a call that had left a non-zero smoothed level.
C10_Witness ==
    /\ AfterProcess
    /\ Initialised
    /\ calls > 1
    /\ m_fft_output_buffer # ZeroSpectrum
    /\ total_energy = LimbZero
    /\ m_latest_dba_spl = 0
    /\ m_smoothed_dba_spl # 0

====
